---- MODULE Spec2Model ----
(***************************************************************************)
(* The request-dispatch surface of the ClusterRunner master                *)
(* (app/web_framework/cluster_master_application.py): the declared v1 and  *)
(* v2 route trees, their compilation into the handler table, dispatch of a *)
(* request path to a handler, and the handlers' bodies.                    *)
(*                                                                         *)
(* A URL path is a sequence of segments.  A segment is either a word       *)
(* (L("build")) or a digit string (D(<<0, 7>>) is "07"); a digit string is *)
(* kept as written, so that int() and str() are real conversions.          *)
(***************************************************************************)
EXTENDS Integers, Sequences, FiniteSets, TLC

VARIABLES
    pc,        \* "constructing" | "serving" | "fatal": ClusterMasterApplication's life
    handlers,  \* the compiled handler table handed to tornado (super().__init__)
    builds,    \* ClusterMaster: the builds by id (id = index), with their subjobs
    store,     \* ClusterMaster: atoms <<b, s, a>> whose console output is kept locally
    slaves,    \* SlaveRegistry: the workers by id (id = index)
    events,    \* analytics: number of MASTER_RECEIVED_RESULT events recorded
    req,       \* the request being answered
    resp,      \* the response to it
    calls      \* the collaborator calls made on behalf of the request, in order

vars == <<pc, handlers, builds, store, slaves, events, req, resp, calls>>
world == <<builds, store, slaves, events>>

----------------------------------------------------------------------------
(* Bounds of the model *)

MaxBuilds == 2      \* builds the master holds at most
MaxSlaves == 2      \* workers the registry holds at most
MaxEvents == 1      \* analytics events recorded at most
MaxBeats == 1       \* heartbeat refreshes counted per worker at most
NumSubjobs == 2     \* subjobs per build (ids 0 .. NumSubjobs - 1)
NumAtoms == 2       \* atoms per subjob (ids 0 .. NumAtoms - 1)

----------------------------------------------------------------------------
(* Segments, digit strings and the int()/str() conversions *)

L(word) == [t |-> "lit", s |-> word, d |-> <<>>]
D(digits) == [t |-> "num", s |-> "", d |-> digits]

RECURSIVE IntOf(_)
\* Python's int() of a string of decimal digits.
IntOf(digits) ==
    IF digits = <<>> THEN 0
    ELSE IntOf(SubSeq(digits, 1, Len(digits) - 1)) * 10 + digits[Len(digits)]

RECURSIVE StrOf(_)
\* Python's str() of a non-negative int: no leading zeros.
StrOf(n) == IF n < 10 THEN <<n>> ELSE StrOf(n \div 10) \o <<n % 10>>

\* A query argument as it arrives: a digit string, or a word that is no number.
IsNumeric(raw) == raw.t = "num" /\ Len(raw.d) >= 1

----------------------------------------------------------------------------
(* The route tree, as declared by ClusterMasterApplication.__init__ *)

DIGITS == "(\\d+)"

RouteNode(regex, handler, label) ==
    [regex |-> regex, handler |-> handler, label |-> label, children |-> <<>>]

\* node.add_children(child_nodes, version=version); version 0 is "not given".
add_children(node, child_nodes, version) ==
    [node EXCEPT !.children =
        @ \o [i \in DOMAIN child_nodes |-> [node |-> child_nodes[i], version |-> version]]]

\* api_v1 with the subjob result node declared one level too high.
api_v1_mut ==
    << add_children(RouteNode("v1", "_APIVersionOneHandler", ""), <<
         RouteNode("metrics", "_MetricsHandler", ""),
         RouteNode("version", "_VersionHandler", ""),
         add_children(RouteNode("build", "_BuildsHandler", "builds"), <<
           add_children(RouteNode(DIGITS, "_BuildHandler", "build"), <<
             RouteNode("result", "_BuildResultRedirectHandler", ""),
             RouteNode("artifacts.tar.gz", "_BuildTarResultHandler", ""),
             RouteNode("artifacts.zip", "_BuildZipResultHandler", ""),
             RouteNode("result", "_SubjobResultHandler", ""),
             add_children(RouteNode("subjob", "_SubjobsHandler", "subjobs"), <<
               add_children(RouteNode(DIGITS, "_SubjobHandler", "subjob"), <<
                 add_children(RouteNode("atom", "_AtomsHandler", "atoms"), <<
                   add_children(RouteNode(DIGITS, "_AtomHandler", "atom"), <<
                     RouteNode("console", "_AtomConsoleHandler", "")
                   >>, 0)
                 >>, 0)
               >>, 0)
             >>, 0)
           >>, 0)
         >>, 0),
         RouteNode("queue", "_QueueHandler", ""),
         add_children(RouteNode("slave", "_SlavesHandler", "slaves"), <<
           add_children(RouteNode(DIGITS, "_SlaveHandler", "slave"), <<
             RouteNode("shutdown", "_SlaveShutdownHandler", "shutdown"),
             RouteNode("heartbeat", "_SlavesHeartbeatHandler", "")
           >>, 0),
           RouteNode("shutdown", "_SlavesShutdownHandler", "shutdown")
         >>, 0),
         RouteNode("eventlog", "_EventlogHandler", "")
       >>, 0) >>

api_v1 ==
    << add_children(RouteNode("v1", "_APIVersionOneHandler", ""), <<
         RouteNode("metrics", "_MetricsHandler", ""),
         RouteNode("version", "_VersionHandler", ""),
         add_children(RouteNode("build", "_BuildsHandler", "builds"), <<
           add_children(RouteNode(DIGITS, "_BuildHandler", "build"), <<
             RouteNode("result", "_BuildResultRedirectHandler", ""),
             RouteNode("artifacts.tar.gz", "_BuildTarResultHandler", ""),
             RouteNode("artifacts.zip", "_BuildZipResultHandler", ""),
             add_children(RouteNode("subjob", "_SubjobsHandler", "subjobs"), <<
               add_children(RouteNode(DIGITS, "_SubjobHandler", "subjob"), <<
                 add_children(RouteNode("atom", "_AtomsHandler", "atoms"), <<
                   add_children(RouteNode(DIGITS, "_AtomHandler", "atom"), <<
                     RouteNode("console", "_AtomConsoleHandler", "")
                   >>, 0)
                 >>, 0),
                 RouteNode("result", "_SubjobResultHandler", "")
               >>, 0)
             >>, 0)
           >>, 0)
         >>, 0),
         RouteNode("queue", "_QueueHandler", ""),
         add_children(RouteNode("slave", "_SlavesHandler", "slaves"), <<
           add_children(RouteNode(DIGITS, "_SlaveHandler", "slave"), <<
             RouteNode("shutdown", "_SlaveShutdownHandler", "shutdown"),
             RouteNode("heartbeat", "_SlavesHeartbeatHandler", "")
           >>, 0),
           RouteNode("shutdown", "_SlavesShutdownHandler", "shutdown")
         >>, 0),
         RouteNode("eventlog", "_EventlogHandler", "")
       >>, 0) >>

api_v2 ==
    << RouteNode("metrics", "_MetricsHandler", ""),
       RouteNode("version", "_VersionHandler", ""),
       add_children(RouteNode("builds", "_V2BuildsHandler", ""), <<
         add_children(RouteNode(DIGITS, "_BuildHandler", "build"), <<
           RouteNode("result", "_BuildResultRedirectHandler", ""),
           RouteNode("artifacts.tar.gz", "_BuildTarResultHandler", ""),
           RouteNode("artifacts.zip", "_BuildZipResultHandler", ""),
           add_children(RouteNode("subjobs", "_V2SubjobsHandler", ""), <<
             add_children(RouteNode(DIGITS, "_SubjobHandler", "subjob"), <<
               add_children(RouteNode("atoms", "_V2AtomsHandler", ""), <<
                 add_children(RouteNode(DIGITS, "_AtomHandler", "atom"), <<
                   RouteNode("console", "_AtomConsoleHandler", "")
                 >>, 0)
               >>, 0),
               RouteNode("result", "_SubjobResultHandler", "")
             >>, 0)
           >>, 0)
         >>, 0)
       >>, 0),
       RouteNode("queue", "_QueueHandler", ""),
       add_children(RouteNode("slaves", "_SlavesHandler", ""), <<
         add_children(RouteNode(DIGITS, "_SlaveHandler", "slave"), <<
           RouteNode("shutdown", "_SlaveShutdownHandler", ""),
           RouteNode("heartbeat", "_SlavesHeartbeatHandler", "")
         >>, 0),
         RouteNode("shutdown", "_SlavesShutdownHandler", "")
       >>, 0),
       RouteNode("eventlog", "_EventlogHandler", "") >>

\* root = RouteNode(r'/', _RootHandler) with both versions mounted on it.
root ==
    add_children(add_children(RouteNode("/", "_RootHandler", ""), api_v1, 1), api_v2, 2)

----------------------------------------------------------------------------
(* The route tree compiler and the dispatcher *)

RECURSIVE gather(_, _, _), gather_children(_, _, _)
\* One entry per node, in pre-order; a node's full pattern is its ancestors'
\* patterns joined root first (the root's own "/" is the leading slash), and
\* an entry carries the version its subtree was mounted with.
gather(node, prefix, version) ==
    LET pattern == IF node.regex = "/" THEN prefix ELSE Append(prefix, node.regex)
    IN  << [pattern |-> pattern, handler |-> node.handler,
            version |-> version, label |-> node.label] >>
        \o gather_children(node.children, pattern, version)
gather_children(edges, prefix, version) ==
    IF edges = <<>> THEN <<>>
    ELSE gather(Head(edges).node, prefix,
                IF Head(edges).version # 0 THEN Head(edges).version ELSE version)
         \o gather_children(Tail(edges), prefix, version)

get_all_handlers(root_route) == gather(root_route, <<>>, 0)

\* Two entries of one version with the same full pattern: ambiguous dispatch.
HasDuplicatePattern(table) ==
    \E i, j \in DOMAIN table :
        /\ i < j
        /\ table[i].version = table[j].version
        /\ table[i].pattern = table[j].pattern

\* "." in a regex matches any one character: the spellings of the model's
\* words that a dotted literal also accepts.
AnyCharSpellings ==
    { <<"artifacts.tar.gz", "artifactsXtarXgz">>, <<"artifacts.zip", "artifactsXzip">> }

SegMatches(regex, seg) ==
    IF regex = DIGITS
    THEN seg.t = "num" /\ Len(seg.d) >= 1
    ELSE seg.t = "lit" /\ (seg.s = regex \/ <<regex, seg.s>> \in AnyCharSpellings)

FullMatch(entry, path) ==
    /\ Len(entry.pattern) = Len(path)
    /\ \A i \in DOMAIN path : SegMatches(entry.pattern[i], path[i])

Matching(table, path) == {i \in DOMAIN table : FullMatch(table[i], path)}

\* First match wins, in emission order; 0 is a dispatch miss.
Dispatch(table, path) ==
    LET m == Matching(table, path)
    IN  IF m = {} THEN 0 ELSE CHOOSE i \in m : \A j \in m : i <= j

RECURSIVE Captures(_, _)
\* The values of the pattern's capture groups, in order, as written in the path.
Captures(pattern, path) ==
    IF pattern = <<>> THEN <<>>
    ELSE (IF Head(pattern) = DIGITS THEN <<Head(path).d>> ELSE <<>>)
         \o Captures(Tail(pattern), Tail(path))

----------------------------------------------------------------------------
(* The handler classes: inheritance, the methods each class body defines,  *)
(* and the methods decorated with @authenticated                           *)

Parent(h) ==
    CASE h = "_V2SubjobsHandler" -> "_SubjobsHandler"
      [] h = "_V2AtomsHandler" -> "_AtomsHandler"
      [] h = "_V2BuildsHandler" -> "_BuildsHandler"
      [] h = "_BuildTarResultHandler" -> "_BuildResultHandler"
      [] h = "_BuildZipResultHandler" -> "_BuildResultHandler"
      [] OTHER -> ""

Defines(h) ==
    CASE h \in {"_SubjobResultHandler", "_BuildsHandler", "_SlavesHandler"} -> {"get", "post"}
      [] h \in {"_BuildHandler", "_SlaveHandler"} -> {"get", "put"}
      [] h \in {"_SlaveShutdownHandler", "_SlavesShutdownHandler",
                "_SlavesHeartbeatHandler"} -> {"post"}
      [] h \in {"_RootHandler", "_BuildTarResultHandler", "_BuildZipResultHandler", ""} -> {}
      [] OTHER -> {"get"}

\* The class whose body runs when method m is called on an instance of h
\* ("" when neither h nor its parent defines m).
Resolve(h, m) ==
    IF m \in Defines(h) THEN h
    ELSE IF m \in Defines(Parent(h)) THEN Parent(h) ELSE ""

Authenticated_mut ==
    { <<"_BuildsHandler", "post">>, <<"_SlaveHandler", "put">>,
      <<"_SlaveShutdownHandler", "post">>, <<"_SlavesShutdownHandler", "post">>,
      <<"_SlavesHeartbeatHandler", "post">> }

Authenticated ==
    { <<"_BuildsHandler", "post">>, <<"_BuildHandler", "put">>,
      <<"_SlaveHandler", "put">>, <<"_SlaveShutdownHandler", "post">>,
      <<"_SlavesShutdownHandler", "post">>, <<"_SlavesHeartbeatHandler", "post">> }

----------------------------------------------------------------------------
(* Requests and responses *)

NoLocation == [base |-> [host |-> 0], path |-> <<>>, query |-> <<>>]

Response(kind, code) ==
    [kind |-> kind, code |-> code, success |-> TRUE, body |-> <<>>,
     location |-> NoLocation, error |-> "", origin |-> ""]

\* self.write(response)
Write(body) == [Response("write", 200) EXCEPT !.body = body]
\* self._write_status(additional_response, success, status_code)
WriteStatus(body, success, code) ==
    [Response("status", code) EXCEPT !.body = body, !.success = success]
\* self.redirect(url): a Location header and no body
Redirect(location) == [Response("redirect", 302) EXCEPT !.location = location]
\* an exception leaves the handler; origin names the call that raised it
Raise(error, origin) ==
    [Response("raise", 500) EXCEPT !.success = FALSE, !.error = error, !.origin = origin]
\* the @authenticated guard turns the request away
Reject == [Response("reject", 401) EXCEPT !.success = FALSE]
\* the handler returns without writing anything
Empty == Response("empty", 200)
\* no compiled entry matches the path
Miss == [Response("miss", 404) EXCEPT !.success = FALSE]

NoRequest ==
    [method |-> "", path |-> <<>>, auth |-> FALSE, handler |-> "", version |-> 0,
     args |-> <<>>, query |-> <<>>, body |-> <<>>]

Request(method, path, auth, query, body) ==
    LET i == Dispatch(handlers, path)
    IN  [method |-> method, path |-> path, auth |-> auth,
         handler |-> IF i = 0 THEN "" ELSE handlers[i].handler,
         version |-> IF i = 0 THEN 0 ELSE handlers[i].version,
         args |-> IF i = 0 THEN <<>> ELSE Captures(handlers[i].pattern, path),
         query |-> query, body |-> body]

\* The dispatcher hands (method, path) to the body that class h defines for
\* method m; a handler instance serves one request, start to finish.
Runs(m, path, h) ==
    /\ pc = "serving"
    /\ resp.kind = "none"
    /\ LET i == Dispatch(handlers, path)
       IN  i # 0 /\ Resolve(handlers[i].handler, m) = h

\* A query argument that was not supplied.
Absent == [t |-> "absent", s |-> "", d |-> <<>>]

----------------------------------------------------------------------------
(* Collaborators: ClusterMaster, its builds and subjobs, SlaveRegistry *)

SubjobIds == 0 .. NumSubjobs - 1
AtomIds == 0 .. NumAtoms - 1

url_of(i) == [host |-> i]
NewSlave(i) == [url |-> url_of(i), state |-> "IDLE", shutdown |-> FALSE, beats |-> 0]
NewBuild == [status |-> "QUEUED", slave |-> [s \in SubjobIds |-> 0], done |-> {}]

\* ClusterMaster.get_build: the build, or ItemNotFoundError
has_build(b) == b \in DOMAIN builds
\* Build.subjob: the subjob, or ItemNotFoundError
has_subjob(b, s) == has_build(b) /\ s \in SubjobIds
\* SlaveRegistry.get_slave(slave_url=...): the worker's id, 0 when unknown
slave_by_url(u) ==
    IF \E i \in DOMAIN slaves : slaves[i].url = u
    THEN CHOOSE i \in DOMAIN slaves : slaves[i].url = u ELSE 0

\* ClusterMaster.get_console_output: the local console-output store
has_console_output(b, s, a) == <<b, s, a>> \in store

\* UrlBuilder(base).url(*args): the arguments joined onto the base URL
UrlBuilder_url(base, args) == [base |-> base, path |-> args, query |-> <<>>]

----------------------------------------------------------------------------
(* Construction *)

\* ClusterMasterApplication.__init__: compile the tree, hand the table on.
Construct ==
    /\ pc = "constructing"
    /\ handlers' = get_all_handlers(root)
    /\ pc' = IF HasDuplicatePattern(get_all_handlers(root)) THEN "fatal" ELSE "serving"
    /\ UNCHANGED <<world, req, resp, calls>>

----------------------------------------------------------------------------
(* What a client may send *)

BuildIdStrings == { <<1>>, <<0, 1>>, <<9>> }
SubjobIdStrings == { <<0>>, <<1>>, <<9>> }
AtomIdStrings == { <<0>>, <<1>> }
SlaveIdStrings == { <<1>>, <<2>>, <<9>> }

\* The collection words of the two declared trees.
BuildsPath(v) == IF v = 1 THEN <<L("v1"), L("build")>> ELSE <<L("builds")>>
SubjobsWord(v) == IF v = 1 THEN L("subjob") ELSE L("subjobs")
AtomsWord(v) == IF v = 1 THEN L("atom") ELSE L("atoms")
SlavesPath(v) == IF v = 1 THEN <<L("v1"), L("slave")>> ELSE <<L("slaves")>>

BuildPaths == { BuildsPath(v) \o <<D(b)>> : v \in {1, 2}, b \in BuildIdStrings }
SubjobPaths ==
    { BuildsPath(v) \o <<D(b), SubjobsWord(v), D(s)>> :
        v \in {1, 2}, b \in BuildIdStrings, s \in SubjobIdStrings }
AtomPaths ==
    UNION { { BuildsPath(v) \o <<D(b), SubjobsWord(v), D(s), AtomsWord(v), D(a)>> :
                b \in BuildIdStrings, s \in SubjobIdStrings, a \in AtomIdStrings } :
            v \in {1, 2} }
ConsolePaths == { Append(p, L("console")) : p \in AtomPaths }

MaxLinesArgs == { Absent, D(<<5>>), D(<<0, 7>>), L("many") }
OffsetLineArgs == { Absent, D(<<0>>), D(<<1, 2>>), L("end") }

----------------------------------------------------------------------------
(* _AtomConsoleHandler *)

DEFAULT_MAX_LINES == 50

\* The payload the local store answers with for the requested range.
console_output(b, s, a, max_lines, offset_line) == <<b, s, a, max_lines>> \o offset_line

\* The outcome when the subjob has no worker: "raise e" of the caught error.
no_worker_outcome_mut == Write(<<>>)
no_worker_outcome == Raise("ItemNotFoundError", "get_console_output")

\* api_url_builder.url('build', build_id, 'subjob', subjob_id, 'atom', atom_id, 'console')
slave_console_path_mut(build_id, subjob_id, atom_id) ==
    << L("build"), D(build_id), L("subjob"), D(atom_id), L("atom"), D(subjob_id),
       L("console") >>
slave_console_path(build_id, subjob_id, atom_id) ==
    << L("build"), D(build_id), L("subjob"), D(subjob_id), L("atom"), D(atom_id),
       L("console") >>

\* urllib.parse.urlencode(query): max_lines always, offset_line unless None
\* (offset_line is <<>> for None, <<n>> for the int n).
redirect_query_mut(max_lines, offset_line) ==
    << <<"max_lines", StrOf(max_lines)>> >>
    \o (IF offset_line # <<>> /\ offset_line[1] # 0
        THEN << <<"offset_line", StrOf(offset_line[1])>> >> ELSE <<>>)
redirect_query(max_lines, offset_line) ==
    << <<"max_lines", StrOf(max_lines)>> >>
    \o (IF offset_line # <<>>
        THEN << <<"offset_line", StrOf(offset_line[1])>> >> ELSE <<>>)

_AtomConsoleHandler_get(build_id, subjob_id, atom_id, ml, ol) ==
    IF ml # Absent /\ ~IsNumeric(ml)
    THEN [resp |-> Raise("ValueError", "max_lines"), calls |-> <<>>]
    ELSE IF ol # Absent /\ ~IsNumeric(ol)
    THEN [resp |-> Raise("ValueError", "offset_line"), calls |-> <<>>]
    ELSE
    LET max_lines == IF ml = Absent THEN DEFAULT_MAX_LINES ELSE IntOf(ml.d)
        offset_line == IF ol = Absent THEN <<>> ELSE <<IntOf(ol.d)>>
        b == IntOf(build_id)
        s == IntOf(subjob_id)
        a == IntOf(atom_id)
    IN  IF has_console_output(b, s, a)
        THEN [resp |-> Write(console_output(b, s, a, max_lines, offset_line)),
              calls |-> <<"get_console_output">>]
        ELSE IF ~has_build(b)
        THEN [resp |-> Raise("ItemNotFoundError", "get_build"),
              calls |-> <<"get_console_output", "get_build">>]
        ELSE IF ~has_subjob(b, s)
        THEN [resp |-> Raise("ItemNotFoundError", "subjob"),
              calls |-> <<"get_console_output", "get_build", "subjob">>]
        ELSE IF builds[b].slave[s] = 0
        THEN [resp |-> no_worker_outcome,
              calls |-> <<"get_console_output", "get_build", "subjob">>]
        ELSE
        LET slave_console_url ==
                UrlBuilder_url(slaves[builds[b].slave[s]].url,
                               slave_console_path(build_id, subjob_id, atom_id))
        IN  [resp |-> Redirect([slave_console_url EXCEPT
                                   !.query = redirect_query(max_lines, offset_line)]),
             calls |-> <<"get_console_output", "get_build", "subjob">>]

AtomConsoleGet ==
    \E p \in ConsolePaths :
        /\ Runs("get", p, "_AtomConsoleHandler")
        /\ \E ml \in MaxLinesArgs, ol \in OffsetLineArgs :
             LET r == Request("get", p, FALSE,
                              << <<"max_lines", ml>>, <<"offset_line", ol>> >>, <<>>)
                 out == _AtomConsoleHandler_get(r.args[1], r.args[2], r.args[3], ml, ol)
             IN  /\ req' = r
                 /\ resp' = out.resp
                 /\ calls' = out.calls
        /\ UNCHANGED <<pc, handlers, world>>

\* The response has gone out and the handler instance is dropped.
Finish ==
    /\ resp.kind # "none"
    /\ req' = NoRequest
    /\ resp' = Response("none", 0)
    /\ calls' = <<>>
    /\ UNCHANGED <<pc, handlers, world>>

----------------------------------------------------------------------------
(* Initial states *)

InitApp ==
    /\ pc = "constructing"
    /\ handlers = <<>>
    /\ req = NoRequest
    /\ resp = Response("none", 0)
    /\ calls = <<>>

\* One build; at most one of its subjobs is being worked on by a registered
\* worker; the subjobs below some id have finished and their atoms' console
\* output is kept locally.
InitConsole ==
    /\ InitApp
    /\ slaves = [i \in 1 .. MaxSlaves |-> NewSlave(i)]
    /\ \E s \in SubjobIds, w \in 0 .. MaxSlaves :
          builds = << [NewBuild EXCEPT !.slave[s] = w] >>
    /\ \E k \in 0 .. NumSubjobs :
          store = { <<1, s, a>> : s \in 0 .. k - 1, a \in AtomIds }
    /\ events = 0

NextConsole == Construct \/ AtomConsoleGet \/ Finish

SpecConsole == InitConsole /\ [][NextConsole]_vars

----------------------------------------------------------------------------
(* Requests no handler body answers *)

RECURSIVE InstancesOf(_)
\* The paths a full pattern matches, over the ids and spellings of the model.
InstancesOf(pattern) ==
    IF pattern = <<>> THEN { <<>> }
    ELSE LET segs == IF Head(pattern) = DIGITS
                     THEN { D(<<1>>), D(<<0, 1>>) }
                     ELSE { L(Head(pattern)) }
                          \cup { L(x[2]) : x \in { y \in AnyCharSpellings : y[1] = Head(pattern) } }
         IN  { <<seg>> \o rest : seg \in segs, rest \in InstancesOf(Tail(pattern)) }

\* Every path some declared node matches, those paths under a /v2 prefix, and
\* under a doubled /v1 prefix.
AllPaths ==
    LET declared == UNION { InstancesOf(get_all_handlers(root)[i].pattern) :
                            i \in DOMAIN get_all_handlers(root) }
    IN  declared \cup { <<L("v2")>> \o p : p \in declared }
                 \cup { <<L("v1")>> \o p : p \in declared }

\* tornado: no compiled entry matches the path (404).
NoRoute ==
    /\ pc = "serving"
    /\ resp.kind = "none"
    /\ \E p \in AllPaths :
          /\ Dispatch(handlers, p) = 0
          /\ req' = Request("get", p, FALSE, <<>>, <<>>)
          /\ resp' = Miss
          /\ calls' = <<>>
    /\ UNCHANGED <<pc, handlers, world>>

\* tornado: the matched handler class defines no such method (405).
MethodNotAllowed ==
    /\ pc = "serving"
    /\ resp.kind = "none"
    /\ \E p \in AllPaths :
          /\ Dispatch(handlers, p) # 0
          /\ Resolve(handlers[Dispatch(handlers, p)].handler, "delete") = ""
          /\ req' = Request("delete", p, FALSE, <<>>, <<>>)
          /\ resp' = [Response("not_allowed", 405) EXCEPT !.success = FALSE]
          /\ calls' = <<>>
    /\ UNCHANGED <<pc, handlers, world>>

----------------------------------------------------------------------------
(* _BuildResultRedirectHandler, _BuildTarResultHandler, _BuildZipResultHandler *)

\* '/v1/build/{}/artifacts.tar.gz'.format(build_id), split at its slashes
result_redirect_path_mut(build_id) ==
    << L("v1"), L("build"), D(build_id), L("artifacts.zip") >>
result_redirect_path(build_id) ==
    << L("v1"), L("build"), D(build_id), L("artifacts.tar.gz") >>

_BuildResultRedirectHandler_get(build_id) ==
    [resp |-> Redirect([NoLocation EXCEPT !.path = result_redirect_path(build_id)]),
     calls |-> <<>>]

BuildResultRedirectGet ==
    \E p \in { Append(q, L("result")) : q \in BuildPaths } :
        /\ Runs("get", p, "_BuildResultRedirectHandler")
        /\ LET r == Request("get", p, FALSE, <<>>, <<>>)
               out == _BuildResultRedirectHandler_get(r.args[1])
           IN  /\ req' = r
               /\ resp' = out.resp
               /\ calls' = out.calls
        /\ UNCHANGED <<pc, handlers, world>>

\* get_result_file_download_path of the two subclasses: is_tar_request is
\* True for the tar handler and left at its default for the zip handler.
is_tar_request(handler) == handler = "_BuildTarResultHandler"

\* _BuildResultHandler.get: resolve the archive path, hand it to the static
\* file server.
_BuildResultHandler_get(handler, build_id) ==
    IF ~has_build(IntOf(build_id))
    THEN [resp |-> Raise("ItemNotFoundError", "get_path_for_build_results_archive"),
          calls |-> <<"get_path_for_build_results_archive">>]
    ELSE [resp |-> [Response("file", 200) EXCEPT
                       !.body = << IntOf(build_id),
                                   IF is_tar_request(handler) THEN "tar" ELSE "zip" >>],
          calls |-> <<"get_path_for_build_results_archive">>]

BuildResultGet ==
    \E p \in { Append(q, L(w)) : q \in BuildPaths,
                                 w \in {"artifacts.tar.gz", "artifacts.zip", "artifactsXzip"} } :
        /\ Runs("get", p, "_BuildResultHandler")
        /\ LET r == Request("get", p, FALSE, <<>>, <<>>)
               out == _BuildResultHandler_get(r.handler, r.args[1])
           IN  /\ req' = r
               /\ resp' = out.resp
               /\ calls' = out.calls
        /\ UNCHANGED <<pc, handlers, world>>

\* One or more builds, the configured workers registered.
InitRoutes ==
    /\ InitApp
    /\ slaves = [i \in 1 .. MaxSlaves |-> NewSlave(i)]
    /\ \E n \in 1 .. MaxBuilds : builds = [b \in 1 .. n |-> NewBuild]
    /\ store = {}
    /\ events = 0

NextRoutes ==
    \/ Construct
    \/ NoRoute
    \/ MethodNotAllowed
    \/ BuildResultRedirectGet
    \/ BuildResultGet
    \/ Finish

SpecRoutes == InitRoutes /\ [][NextRoutes]_vars

----------------------------------------------------------------------------
(* The listing handlers *)

OffsetArgs == { Absent, D(<<0>>), D(<<1>>), D(<<9>>) }
LimitArgs == { Absent, D(<<0>>), D(<<1>>), D(<<2>>) }

\* self.get_pagination_params(): offset defaults to 0, limit to unbounded
\* (<<>>).
get_pagination_params(query) ==
    [offset |-> IF query[1][2] = Absent THEN 0 ELSE IntOf(query[1][2].d),
     limit |-> IF query[2][2] = Absent THEN <<>> ELSE <<IntOf(query[2][2].d)>>]

\* The collaborators' get_builds / get_subjobs / get_atoms (offset, limit):
\* the items [offset, offset + limit) of the collection, clamped to it.
Paginate(collection, offset, limit) ==
    LET last == IF limit = <<>> \/ offset + limit[1] > Len(collection)
                THEN Len(collection) ELSE offset + limit[1]
    IN  IF offset >= last THEN <<>> ELSE SubSeq(collection, offset + 1, last)

\* api_representation() of each item of a collection: its id.
all_builds == [b \in DOMAIN builds |-> b]
all_subjobs == [i \in 1 .. NumSubjobs |-> i - 1]
all_atoms == [i \in 1 .. NumAtoms |-> i - 1]
all_slaves == [i \in DOMAIN slaves |-> i]

_BuildsHandler_get ==
    [resp |-> Write(all_builds), calls |-> <<"get_builds">>]

_V2BuildsHandler_get(query) ==
    LET pg == get_pagination_params(query)
    IN  [resp |-> Write(Paginate(all_builds, pg.offset, pg.limit)),
         calls |-> <<"get_builds">>]

_SubjobsHandler_get(build_id) ==
    IF ~has_build(IntOf(build_id))
    THEN [resp |-> Raise("ItemNotFoundError", "get_build"), calls |-> <<"get_build">>]
    ELSE [resp |-> Write(all_subjobs), calls |-> <<"get_build", "get_subjobs">>]

_V2SubjobsHandler_get(build_id, query) ==
    LET pg == get_pagination_params(query)
    IN  IF ~has_build(IntOf(build_id))
        THEN [resp |-> Raise("ItemNotFoundError", "get_build"), calls |-> <<"get_build">>]
        ELSE [resp |-> Write(Paginate(all_subjobs, pg.offset, pg.limit)),
              calls |-> <<"get_build", "get_subjobs">>]

_AtomsHandler_get(build_id, subjob_id) ==
    IF ~has_build(IntOf(build_id))
    THEN [resp |-> Raise("ItemNotFoundError", "get_build"), calls |-> <<"get_build">>]
    ELSE IF ~has_subjob(IntOf(build_id), IntOf(subjob_id))
    THEN [resp |-> Raise("ItemNotFoundError", "subjob"), calls |-> <<"get_build", "subjob">>]
    ELSE [resp |-> Write(all_atoms), calls |-> <<"get_build", "subjob", "atoms">>]

_V2AtomsHandler_get(build_id, subjob_id, query) ==
    LET pg == get_pagination_params(query)
    IN  IF ~has_build(IntOf(build_id))
        THEN [resp |-> Raise("ItemNotFoundError", "get_build"), calls |-> <<"get_build">>]
        ELSE IF ~has_subjob(IntOf(build_id), IntOf(subjob_id))
        THEN [resp |-> Raise("ItemNotFoundError", "subjob"),
              calls |-> <<"get_build", "subjob">>]
        ELSE [resp |-> Write(Paginate(all_atoms, pg.offset, pg.limit)),
              calls |-> <<"get_build", "subjob", "get_atoms">>]

\* _SlavesHandler.get, the listing of both trees: every registered worker.
_SlavesHandler_get ==
    [resp |-> Write(all_slaves), calls |-> <<"get_all_slaves_by_id">>]

\* A listing request to path p, answered by the get that class h defines.
Listing(r, h, out) ==
    /\ Runs("get", r.path, h)
    /\ req' = r
    /\ resp' = out.resp
    /\ calls' = out.calls
    /\ UNCHANGED <<pc, handlers, world>>

\* The listing request to path p with the query arguments offset and limit.
ListingRequest(p, o, l) ==
    Request("get", p, FALSE, << <<"offset", o>>, <<"limit", l>> >>, <<>>)

BuildsGet ==
    \E v \in {1, 2}, o \in OffsetArgs, l \in LimitArgs :
        LET r == ListingRequest(BuildsPath(v), o, l)
        IN  Listing(r, "_BuildsHandler", _BuildsHandler_get)

V2BuildsGet ==
    \E v \in {1, 2}, o \in OffsetArgs, l \in LimitArgs :
        LET r == ListingRequest(BuildsPath(v), o, l)
        IN  Listing(r, "_V2BuildsHandler", _V2BuildsHandler_get(r.query))

SubjobsGet ==
    \E v \in {1, 2}, p \in BuildPaths, o \in OffsetArgs, l \in LimitArgs :
        LET r == ListingRequest(Append(p, SubjobsWord(v)), o, l)
        IN  Listing(r, "_SubjobsHandler", _SubjobsHandler_get(r.args[1]))

V2SubjobsGet ==
    \E v \in {1, 2}, p \in BuildPaths, o \in OffsetArgs, l \in LimitArgs :
        LET r == ListingRequest(Append(p, SubjobsWord(v)), o, l)
        IN  Listing(r, "_V2SubjobsHandler", _V2SubjobsHandler_get(r.args[1], r.query))

AtomsGet ==
    \E v \in {1, 2}, p \in SubjobPaths, o \in OffsetArgs, l \in LimitArgs :
        LET r == ListingRequest(Append(p, AtomsWord(v)), o, l)
        IN  Listing(r, "_AtomsHandler", _AtomsHandler_get(r.args[1], r.args[2]))

V2AtomsGet ==
    \E v \in {1, 2}, p \in SubjobPaths, o \in OffsetArgs, l \in LimitArgs :
        LET r == ListingRequest(Append(p, AtomsWord(v)), o, l)
        IN  Listing(r, "_V2AtomsHandler", _V2AtomsHandler_get(r.args[1], r.args[2], r.query))

SlavesGet ==
    \E v \in {1, 2}, o \in OffsetArgs, l \in LimitArgs :
        LET r == ListingRequest(SlavesPath(v), o, l)
        IN  Listing(r, "_SlavesHandler", _SlavesHandler_get)

\* Some builds, some registered workers.
InitListing ==
    /\ InitApp
    /\ \E k \in 0 .. MaxSlaves : slaves = [i \in 1 .. k |-> NewSlave(i)]
    /\ \E n \in 1 .. MaxBuilds : builds = [b \in 1 .. n |-> NewBuild]
    /\ store = {}
    /\ events = 0

NextListing ==
    \/ Construct
    \/ BuildsGet
    \/ V2BuildsGet
    \/ SubjobsGet
    \/ V2SubjobsGet
    \/ AtomsGet
    \/ V2AtomsGet
    \/ SlavesGet
    \/ Finish

SpecListing == InitListing /\ [][NextListing]_vars

----------------------------------------------------------------------------
(* The mutating handlers *)

ACCEPTED == 202
BAD_REQUEST == 400
OK == 200
CREATED == 201

\* What a handler body leaves behind: the response, the collaborator calls
\* it made, and the collaborators' state.
Outcome(response, made, b, w, e) ==
    [resp |-> response, calls |-> made, builds |-> b, slaves |-> w, events |-> e]
\* An outcome that changes no collaborator.
ReadOnly(response, made) == Outcome(response, made, builds, slaves, events)

\* @authenticated: without a valid credential the decorated method is not
\* entered.
authenticated(auth, out) == IF auth THEN out ELSE ReadOnly(Reject, <<>>)

\* The method of class h as the dispatcher calls it: decorated or bare.
Method(h, m, auth, out) ==
    IF <<h, m>> \in Authenticated THEN authenticated(auth, out) ELSE out

\* A request to path p answered by the method m that class h defines; the
\* collaborators stay within the bounds of the model.
Mutating(r, h, body) ==
    /\ Runs(r.method, r.path, h)
    /\ LET out == Method(h, r.method, r.auth, body)
       IN  /\ Len(out.builds) <= MaxBuilds
           /\ Len(out.slaves) <= MaxSlaves
           /\ out.events <= MaxEvents
           /\ \A i \in DOMAIN out.slaves : out.slaves[i].beats <= MaxBeats
           /\ req' = r
           /\ resp' = out.resp
           /\ calls' = out.calls
           /\ builds' = out.builds
           /\ slaves' = out.slaves
           /\ events' = out.events
    /\ UNCHANGED <<pc, handlers, store>>

\* ClusterMaster.update_slave_last_heartbeat_time
update_slave_last_heartbeat_time(w, i) == [w EXCEPT ![i].beats = @ + 1]

\* _BuildsHandler.post: valid says whether the master accepts build_params.
_BuildsHandler_post(valid) ==
    LET success == valid
        status_code == IF success THEN ACCEPTED ELSE BAD_REQUEST
    IN  Outcome(WriteStatus(IF success THEN <<Len(builds) + 1>> ELSE <<>>,
                            success, status_code),
                <<"handle_request_for_new_build">>,
                IF success THEN Append(builds, NewBuild) ELSE builds, slaves, events)

\* _BuildHandler.put: valid says whether the master accepts update_params.
_BuildHandler_put(build_id, valid) ==
    IF ~has_build(IntOf(build_id))
    THEN ReadOnly(Raise("ItemNotFoundError", "handle_request_to_update_build"),
                  <<"handle_request_to_update_build">>)
    ELSE
    LET success == valid
        status_code == IF success THEN OK ELSE BAD_REQUEST
    IN  Outcome(WriteStatus(<<>>, success, status_code),
                <<"handle_request_to_update_build">>,
                IF success THEN [builds EXCEPT ![IntOf(build_id)].status = "CANCELED"]
                ELSE builds, slaves, events)

\* if not file_payload: the 'file' entry is missing or an empty list
file_missing_mut(file_payload) == file_payload = "none"
file_missing(file_payload) == file_payload \in {"none", "empty"}

\* _SubjobResultHandler.post
_SubjobResultHandler_post(build_id, subjob_id, slave_url, file_payload) ==
    IF slave_by_url(slave_url) = 0
    THEN ReadOnly(Raise("ItemNotFoundError", "get_slave"), <<"get_slave">>)
    ELSE IF file_missing(file_payload)
    THEN ReadOnly(Raise("RuntimeError", "post"), <<"get_slave">>)
    ELSE IF ~has_subjob(IntOf(build_id), IntOf(subjob_id))
    THEN Outcome(Raise("ItemNotFoundError", "handle_result_reported_from_slave"),
                 <<"get_slave", "record_event", "handle_result_reported_from_slave">>,
                 builds, slaves, events + 1)
    ELSE Outcome(WriteStatus(<<>>, TRUE, 200),
                 <<"get_slave", "record_event", "handle_result_reported_from_slave">>,
                 [builds EXCEPT ![IntOf(build_id)].done = @ \cup {IntOf(subjob_id)}],
                 slaves, events + 1)

\* _SlavesHandler.post: connect (or reconnect) a worker.
_SlavesHandler_post(slave_url, num_executors) ==
    IF num_executors = "none"
    THEN ReadOnly(Raise("TypeError", "int"), <<>>)
    ELSE IF slave_by_url(slave_url) # 0
    THEN Outcome(WriteStatus(<<slave_by_url(slave_url)>>, TRUE, CREATED),
                 <<"connect_slave">>, builds,
                 [slaves EXCEPT ![slave_by_url(slave_url)] = NewSlave(slave_url.host)],
                 events)
    ELSE Outcome(WriteStatus(<<Len(slaves) + 1>>, TRUE, CREATED),
                 <<"connect_slave">>, builds,
                 Append(slaves, NewSlave(slave_url.host)), events)

\* _SlaveHandler.put
_SlaveHandler_put(slave_id, new_slave_state) ==
    IF IntOf(slave_id) \notin DOMAIN slaves
    THEN ReadOnly(Raise("ItemNotFoundError", "get_slave"), <<"get_slave">>)
    ELSE Outcome(WriteStatus(<<IntOf(slave_id)>>, TRUE, 200),
                 <<"get_slave", "handle_slave_state_update",
                   "update_slave_last_heartbeat_time">>,
                 builds,
                 update_slave_last_heartbeat_time(
                     [slaves EXCEPT ![IntOf(slave_id)].state = new_slave_state],
                     IntOf(slave_id)),
                 events)

\* ClusterMaster.set_shutdown_mode_on_slaves: every id must be registered.
set_shutdown_mode_on_slaves(slaves_to_shutdown) ==
    IF \E i \in slaves_to_shutdown : i \notin DOMAIN slaves
    THEN ReadOnly(Raise("ItemNotFoundError", "set_shutdown_mode_on_slaves"),
                  <<"set_shutdown_mode_on_slaves">>)
    ELSE Outcome(Empty, <<"set_shutdown_mode_on_slaves">>, builds,
                 [i \in DOMAIN slaves |->
                     IF i \in slaves_to_shutdown
                     THEN [slaves[i] EXCEPT !.shutdown = TRUE] ELSE slaves[i]],
                 events)

\* _SlaveShutdownHandler.post
_SlaveShutdownHandler_post(slave_id) == set_shutdown_mode_on_slaves({IntOf(slave_id)})

\* _SlavesShutdownHandler.post: ids is the body's 'slaves' entry, a list of
\* ids (given) or None.
_SlavesShutdownHandler_post(shutdown_all, ids) ==
    IF shutdown_all
    THEN [set_shutdown_mode_on_slaves(DOMAIN slaves) EXCEPT
             !.calls = <<"get_all_slaves_by_id">> \o @]
    ELSE IF ~ids.given
    THEN ReadOnly(Raise("TypeError", "slaves"), <<>>)
    ELSE set_shutdown_mode_on_slaves({IntOf(ids.list[i]) : i \in DOMAIN ids.list})

\* _SlavesHeartbeatHandler.post
_SlavesHeartbeatHandler_post(slave_id) ==
    IF IntOf(slave_id) \notin DOMAIN slaves
    THEN ReadOnly(Raise("ItemNotFoundError", "get_slave"), <<"get_slave">>)
    ELSE Outcome(Empty, <<"get_slave", "update_slave_last_heartbeat_time">>, builds,
                 update_slave_last_heartbeat_time(slaves, IntOf(slave_id)), events)

SlavePaths == { SlavesPath(v) \o <<D(i)>> : v \in {1, 2}, i \in SlaveIdStrings }
\* The URLs workers announce themselves with; one is unknown to the registry
\* until its worker connects.
SlaveUrls == { url_of(i) : i \in 1 .. MaxSlaves }

BuildsPost ==
    \E v \in {1, 2}, auth \in BOOLEAN, valid \in BOOLEAN :
        LET r == Request("post", BuildsPath(v), auth, <<>>,
                         <<valid>>)
        IN  Mutating(r, "_BuildsHandler", _BuildsHandler_post(valid))

BuildPut ==
    \E p \in BuildPaths, auth \in BOOLEAN, valid \in BOOLEAN :
        LET r == Request("put", p, auth, <<>>,
                         <<valid>>)
        IN  Mutating(r, "_BuildHandler", _BuildHandler_put(r.args[1], valid))

SubjobResultPost ==
    \E p \in SubjobPaths, auth \in {FALSE}, u \in SlaveUrls,
       f \in {"none", "empty", "one"} :
        LET r == Request("post", Append(p, L("result")), auth, <<>>,
                         [slave |-> u, file |-> f])
        IN  Mutating(r, "_SubjobResultHandler", _SubjobResultHandler_post(r.args[1], r.args[2], u, f))

SlavesPost ==
    \E v \in {1, 2}, auth \in BOOLEAN, u \in SlaveUrls, n \in {"none", "one"} :
        LET r == Request("post", SlavesPath(v), auth, <<>>,
                         [slave |-> u, num_executors |-> n])
        IN  Mutating(r, "_SlavesHandler", _SlavesHandler_post(u, n))

SlavePut ==
    \E p \in SlavePaths, auth \in BOOLEAN, st \in {"IDLE", "DISCONNECTED"} :
        LET r == Request("put", p, auth, <<>>,
                         <<st>>)
        IN  Mutating(r, "_SlaveHandler", _SlaveHandler_put(r.args[1], st))

SlaveShutdownPost ==
    \E p \in SlavePaths, auth \in BOOLEAN :
        LET r == Request("post", Append(p, L("shutdown")), auth, <<>>,
                         <<>>)
        IN  Mutating(r, "_SlaveShutdownHandler", _SlaveShutdownHandler_post(r.args[1]))

SlavesShutdownPost ==
    \E v \in {1, 2}, auth \in BOOLEAN, all \in BOOLEAN,
       ids \in {[given |-> FALSE, list |-> <<>>]}
                \cup { [given |-> TRUE, list |-> <<i>>] : i \in SlaveIdStrings } :
        LET r == Request("post", Append(SlavesPath(v), L("shutdown")), auth, <<>>,
                         [shutdown_all |-> all, slaves |-> ids])
        IN  Mutating(r, "_SlavesShutdownHandler", _SlavesShutdownHandler_post(all, ids))

SlavesHeartbeatPost ==
    \E p \in SlavePaths, auth \in BOOLEAN :
        LET r == Request("post", Append(p, L("heartbeat")), auth, <<>>,
                         <<>>)
        IN  Mutating(r, "_SlavesHeartbeatHandler", _SlavesHeartbeatHandler_post(r.args[1]))

\* One build and one connected worker: builds are created, workers connect
\* and report results.
InitResults ==
    /\ InitApp
    /\ slaves = << NewSlave(1) >>
    /\ builds = << NewBuild >>
    /\ store = {}
    /\ events = 0

NextResults ==
    \/ Construct
    \/ BuildsPost
    \/ SlavesPost
    \/ SubjobResultPost
    \/ Finish

SpecResults == InitResults /\ [][NextResults]_vars

\* One build and two connected workers: the endpoints behind @authenticated.
InitProtected ==
    /\ InitApp
    /\ slaves = << NewSlave(1), NewSlave(2) >>
    /\ builds = << NewBuild >>
    /\ store = {}
    /\ events = 0

NextProtected ==
    \/ Construct
    \/ BuildsPost
    \/ BuildPut
    \/ SlavePut
    \/ SlaveShutdownPost
    \/ SlavesShutdownPost
    \/ SlavesHeartbeatPost
    \/ Finish

SpecProtected == InitProtected /\ [][NextProtected]_vars

----------------------------------------------------------------------------
(* Claims about the console fallback (checked under SpecConsole) *)

\* The console request being answered, as the claims speak of it.
IsConsoleRequest == req.handler = "_AtomConsoleHandler" /\ req.method = "get"
ReqBuild == IntOf(req.args[1])
ReqSubjob == IntOf(req.args[2])
ReqAtom == IntOf(req.args[3])
ReqMaxLinesArg == req.query[1][2]
ReqOffsetLineArg == req.query[2][2]
\* The local store was asked and reported NotFound.
StoreReportedNotFound ==
    /\ IsConsoleRequest
    /\ "get_console_output" \in {calls[i] : i \in DOMAIN calls}
    /\ ~has_console_output(ReqBuild, ReqSubjob, ReqAtom)
AssignedWorker ==
    IF has_subjob(ReqBuild, ReqSubjob) THEN builds[ReqBuild].slave[ReqSubjob] ELSE 0
\* The ids of a path, in order, as integers.
IdsOf(path) == [i \in DOMAIN Captures([j \in DOMAIN path |->
                      IF path[j].t = "num" THEN DIGITS ELSE ""], path) |->
                   IntOf(Captures([j \in DOMAIN path |->
                      IF path[j].t = "num" THEN DIGITS ELSE ""], path)[i])]
\* The last n segments of a path.
LastSegments(path, n) == SubSeq(path, Len(path) - n + 1, Len(path))

\* C1: a console request whose local lookup reports NotFound and whose subjob
\* has an assigned worker w is answered by a redirect, with no body, to the
\* console endpoint of the same build/subjob/atom on w's base URL; the query
\* string carries max_lines = m (50 when not supplied) and carries
\* offset_line = o exactly when the request supplied offset_line.
C1_RedirectToAssignedWorker ==
    (StoreReportedNotFound /\ AssignedWorker # 0) =>
        /\ resp.kind = "redirect"
        /\ resp.body = <<>>
        /\ resp.location.base = slaves[AssignedWorker].url
        /\ IdsOf(resp.location.path) = <<ReqBuild, ReqSubjob, ReqAtom>>
        /\ resp.location.path[Len(resp.location.path)] = L("console")
        /\ resp.location.query[1][1] = "max_lines"
        /\ IntOf(resp.location.query[1][2]) =
               (IF ReqMaxLinesArg = Absent THEN 50 ELSE IntOf(ReqMaxLinesArg.d))
        /\ IF ReqOffsetLineArg = Absent
           THEN Len(resp.location.query) = 1
           ELSE /\ Len(resp.location.query) = 2
                /\ resp.location.query[2][1] = "offset_line"
                /\ IntOf(resp.location.query[2][2]) = IntOf(ReqOffsetLineArg.d)

\* C1 witness: a redirect for a request that supplied offset_line=0 and a
\* zero-padded max_lines.
C1_Witness ==
    /\ StoreReportedNotFound /\ AssignedWorker # 0
    /\ resp.kind = "redirect"
    /\ ReqOffsetLineArg = D(<<0>>)
    /\ ReqMaxLinesArg = D(<<0, 7>>)

\* C2 (as claimed): a NotFound from the local store for a subjob with no
\* assigned worker ends the request with that same NotFound, no redirect and
\* no body; and every console request ends as a written payload, a redirect
\* or a NotFound error.
C2_Original ==
    /\ (StoreReportedNotFound /\ has_subjob(ReqBuild, ReqSubjob) /\ AssignedWorker = 0) =>
          resp = Raise("ItemNotFoundError", "get_console_output")
    /\ (IsConsoleRequest /\ resp.kind # "none") =>
          \/ resp.kind = "write"
          \/ resp.kind = "redirect"
          \/ resp.kind = "raise" /\ resp.error = "ItemNotFoundError"

\* C2 (amended): the same, the three outcomes being those of the console
\* requests whose max_lines and offset_line arguments, when supplied, are
\* integers; any other console request ends with the ValueError of int().
C2_NotFoundPropagates ==
    /\ (StoreReportedNotFound /\ has_subjob(ReqBuild, ReqSubjob) /\ AssignedWorker = 0) =>
          /\ resp = Raise("ItemNotFoundError", "get_console_output")
          /\ resp.body = <<>> /\ resp.location = NoLocation
    /\ (IsConsoleRequest /\ resp.kind # "none") =>
          IF /\ ReqMaxLinesArg \in {Absent} \cup {a \in MaxLinesArgs : IsNumeric(a)}
             /\ ReqOffsetLineArg \in {Absent} \cup {a \in OffsetLineArgs : IsNumeric(a)}
          THEN \/ resp.kind = "write" /\ has_console_output(ReqBuild, ReqSubjob, ReqAtom)
               \/ resp.kind = "redirect" /\ AssignedWorker # 0
               \/ resp.kind = "raise" /\ resp.error = "ItemNotFoundError"
          ELSE resp.kind = "raise" /\ resp.error = "ValueError"

\* C2 witness: the store reported NotFound, the subjob exists and has no
\* worker, and the request ended with an error.
C2_Witness ==
    /\ StoreReportedNotFound /\ has_subjob(ReqBuild, ReqSubjob) /\ AssignedWorker = 0
    /\ resp.kind = "raise"

\* C3 (as claimed): the redirect path has the segment names and ids of the
\* path the request was received on, under either route tree.
C3_Original ==
    (IsConsoleRequest /\ resp.kind = "redirect") =>
        LastSegments(resp.location.path, 7) = LastSegments(req.path, 7)

\* C3 (amended): the redirect path is build/{b}/subjob/{s}/atom/{a}/console
\* with the ids of the received path in the same order; its segment names are
\* those of the received path for a request under the v1 tree, and the
\* singular v1 names for a request under the v2 tree (builds/subjobs/atoms).
C3_RedirectPathScheme ==
    (IsConsoleRequest /\ resp.kind = "redirect") =>
        /\ [i \in 1 .. 7 |-> LastSegments(resp.location.path, 7)[i].s] =
               <<"build", "", "subjob", "", "atom", "", "console">>
        /\ [i \in 1 .. 7 |-> LastSegments(resp.location.path, 7)[i].d] =
               [i \in 1 .. 7 |-> LastSegments(req.path, 7)[i].d]
        /\ (req.version = 1 =>
               LastSegments(resp.location.path, 7) = LastSegments(req.path, 7))
        /\ (req.version = 2 =>
               [i \in 1 .. 7 |-> LastSegments(req.path, 7)[i].s] =
                   <<"builds", "", "subjobs", "", "atoms", "", "console">>)

\* C3 witness: a fallback redirect for a request received under the v2 tree.
C3_Witness == IsConsoleRequest /\ resp.kind = "redirect" /\ req.version = 2

----------------------------------------------------------------------------
(* Claims about the compiled table and the result redirect (SpecRoutes) *)

\* C6 (as claimed): with both versions mounted, /v1/build/n and /v2/builds/n
\* are each dispatched to exactly one entry, the two entries differ, the
\* first is tagged version 1 and the second version 2.
C6_Original ==
    pc = "serving" =>
        \A n \in BuildIdStrings :
            LET m1 == Matching(handlers, <<L("v1"), L("build"), D(n)>>)
                m2 == Matching(handlers, <<L("v2"), L("builds"), D(n)>>)
            IN  /\ Cardinality(m1) = 1
                /\ Cardinality(m2) = 1
                /\ m1 # m2
                /\ \A i \in m1 : handlers[i].version = 1
                /\ \A j \in m2 : handlers[j].version = 2

\* C7: construction never ends in the duplicate-pattern fatal error: no two
\* entries of one version have the same full pattern; and the path of every
\* request is matched by at most one entry, so first-match dispatch does not
\* depend on the order of the table.
C7_NoAmbiguousDispatch ==
    /\ pc # "fatal"
    /\ pc = "serving" =>
          \A i, j \in DOMAIN handlers :
              (i # j /\ handlers[i].version = handlers[j].version) =>
                  handlers[i].pattern # handlers[j].pattern
    /\ resp.kind # "none" => Cardinality(Matching(handlers, req.path)) <= 1

\* C7 witness: a request for a path that only the "." of artifacts.zip lets
\* through was dispatched, to one entry.
C7_Witness ==
    /\ req.path = <<L("v1"), L("build"), D(<<1>>), L("artifactsXzip")>>
    /\ resp.kind # "none"
    /\ Cardinality(Matching(handlers, req.path)) = 1

\* C9: a GET of a build's result entry point, in either tree, resolves no
\* archive path and answers with a redirect whose target the compiled table
\* dispatches to the tar-archive handler, with the same build id.
C9_ResultRedirectsToTar ==
    (req.handler = "_BuildResultRedirectHandler" /\ req.method = "get"
        /\ resp.kind # "none") =>
        /\ resp.kind = "redirect"
        /\ calls = <<>>
        /\ LET i == Dispatch(handlers, resp.location.path)
           IN  /\ i # 0
               /\ handlers[i].handler = "_BuildTarResultHandler"
               /\ Captures(handlers[i].pattern, resp.location.path) = req.args

\* C9 witness: the result entry point of the v2 tree was requested with a
\* zero-padded build id and answered.
C9_Witness ==
    /\ req.handler = "_BuildResultRedirectHandler"
    /\ req.version = 2
    /\ req.args = << <<0, 1>> >>
    /\ resp.kind = "redirect"

----------------------------------------------------------------------------
(* Claims about pagination (SpecListing) *)

ListingHandlers ==
    { "_BuildsHandler", "_V2BuildsHandler", "_SubjobsHandler", "_V2SubjobsHandler",
      "_AtomsHandler", "_V2AtomsHandler", "_SlavesHandler" }
\* The full ordered collection a listing request is about.
ListedCollection ==
    CASE req.handler \in {"_BuildsHandler", "_V2BuildsHandler"} -> all_builds
      [] req.handler \in {"_SubjobsHandler", "_V2SubjobsHandler"} -> all_subjobs
      [] req.handler \in {"_AtomsHandler", "_V2AtomsHandler"} -> all_atoms
      [] OTHER -> all_slaves
ReqOffset == IF req.query[1][2] = Absent THEN 0 ELSE IntOf(req.query[1][2].d)
\* The items of the collection at positions [offset, offset + limit).
RequestedWindow ==
    { i \in DOMAIN ListedCollection :
        /\ i > ReqOffset
        /\ req.query[2][2] # Absent => i <= ReqOffset + IntOf(req.query[2][2].d) }

\* C5 (as claimed): every listing of the v2 tree (builds, subjobs, atoms,
\* slaves) answers with exactly the items [offset, offset + limit) of the
\* collection, clamped to it; every listing of the v1 tree answers with the
\* full collection.
C5_Original ==
    (req.handler \in ListingHandlers /\ req.method = "get" /\ resp.kind = "write") =>
        IF req.version = 2
        THEN /\ Len(resp.body) = Cardinality(RequestedWindow)
             /\ \A i \in DOMAIN resp.body : resp.body[i] = ListedCollection[ReqOffset + i]
        ELSE resp.body = ListedCollection

----------------------------------------------------------------------------
(* Claims about the mutating endpoints (SpecProtected, SpecResults) *)

\* The request is to one of the protected mutating endpoints: build create,
\* build update, worker state update, shutdown of one worker, shutdown of all.
IsProtectedRequest ==
    \/ req.method = "post" /\ req.handler \in {"_BuildsHandler", "_V2BuildsHandler"}
    \/ req.method = "put" /\ req.handler = "_BuildHandler"
    \/ req.method = "put" /\ req.handler = "_SlaveHandler"
    \/ req.method = "post" /\ req.handler = "_SlaveShutdownHandler"
    \/ req.method = "post" /\ req.handler = "_SlavesShutdownHandler"

\* C4: in both trees, a request without a credential to a protected mutating
\* endpoint is rejected before the handler body runs: no call reaches the
\* master or the worker registry, and their state is as it was.
C4_UnauthenticatedRejected ==
    [][(IsProtectedRequest' /\ ~req'.auth /\ resp.kind = "none") =>
          /\ resp'.kind = "reject"
          /\ calls' = <<>>
          /\ world' = world]_vars

\* C4 witness: the build-create endpoint of the v2 tree, whose post is
\* inherited, turned an unauthenticated request away.
C4_Witness ==
    /\ req.handler = "_V2BuildsHandler" /\ req.method = "post" /\ ~req.auth
    /\ resp.kind = "reject"

IsSubjobResultPost == req.handler = "_SubjobResultHandler" /\ req.method = "post"
Called(name) == name \in { calls[i] : i \in DOMAIN calls }

\* C8 (as claimed): every mutating endpoint answers with a {success, body}
\* envelope whose status code tells accepted from rejected, and no exception
\* reaches the client; build create answers ACCEPTED exactly when the master
\* reports success and BAD_REQUEST otherwise, build update OK and BAD_REQUEST.
C8_Original ==
    (req.method \in {"post", "put"} /\ resp.kind \notin {"none", "reject"}) =>
        /\ resp.kind = "status"
        /\ resp.success <=> resp.code \in {200, 201, 202}
        /\ ~resp.success <=> resp.code = 400
        /\ req.handler \in {"_BuildsHandler", "_V2BuildsHandler"} =>
              resp.code = (IF req.body[1] THEN 202 ELSE 400)
        /\ req.handler = "_BuildHandler" =>
              resp.code = (IF req.body[1] THEN 200 ELSE 400)

\* C10: a subjob result is handed to the master only after the reporting
\* worker was found in the registry and a non-empty file payload is present,
\* checked in that order; when the worker is unknown or the file is missing
\* the request fails with an error, no received-result event is recorded and
\* the master's builds and subjobs are as they were.
C10_ResultHandedOverAfterChecks ==
    [][(IsSubjobResultPost' /\ resp.kind = "none") =>
          LET known == slave_by_url(req'.body.slave) # 0
              present == req'.body.file = "one"
          IN  /\ Called("handle_result_reported_from_slave")' =>
                    /\ known /\ present
                    /\ calls'[1] = "get_slave"
                    /\ calls'[Len(calls')] = "handle_result_reported_from_slave"
              /\ ~known => (resp'.kind = "raise" /\ resp'.error = "ItemNotFoundError")
              /\ (known /\ ~present) =>
                    (resp'.kind = "raise" /\ resp'.error = "RuntimeError")
              /\ (~known \/ ~present) =>
                    /\ ~Called("record_event")'
                    /\ ~Called("handle_result_reported_from_slave")'
                    /\ events' = events
                    /\ builds' = builds]_vars

\* C10 witness: a known worker reported a result with an empty file list and
\* the request failed.
C10_Witness ==
    /\ IsSubjobResultPost
    /\ slave_by_url(req.body.slave) # 0
    /\ req.body.file = "empty"
    /\ resp.kind = "raise"

====
